---- MODULE Spec2Model ----
(***************************************************************************)
(* IdleRPG Slack bot (src/idlerpgslack/bot.py): the presence-accounting    *)
(* ledger, the command dispatcher, persistence through save/load and the   *)
(* connection life cycle.  Slack (the API client of src/idlerpg-slack.py)  *)
(* and the wall clock are the environment.                                 *)
(***************************************************************************)
EXTENDS Integers, Sequences, FiniteSets, TLC

\* ------------------------------------------------------------- bounds
\* The clock runs over 0..MaxTime (whole seconds).
MaxTime == 2
\* rtm_read() returns at most MaxBatch events in one call.
MaxBatch == 1
\* ... and at most MaxLoopBatch where the order within a batch is looked at.
MaxLoopBatch == 2

\* -------------------------------------------------- environment data
\* The Slack team: two humans and one bot account (the bot itself).
UserIds == {"U1", "U2", "B1"}
Humans == {"U1", "U2"}
\* login_data['self']['id']
SelfId == "B1"
\* conversations.members of the rpg channel, in the order of the response.
ChannelMembers == <<"U1", "B1">>
RpgChannelId == "C1"

\* users.info: U1 has no display name (the scores command falls back to the
\* real name), U2 has one.
UserInfo(user_id) ==
    [is_bot |-> user_id = "B1",
     profile |-> CASE user_id = "U1" -> [display_name |-> "", real_name |-> "Ann", email |-> "ann@x"]
                   [] user_id = "U2" -> [display_name |-> "bob", real_name |-> "Bob", email |-> "bob@x"]
                   [] OTHER -> [display_name |-> "", real_name |-> "", email |-> ""]]

\* A remote call is named by its Web API method and the user it is about.
Call(method, user_id) == [method |-> method, user |-> user_id]
NoFail == Call("", "")
\* The call that answers ok = false in one handler run (none for NoFail).  The
\* first failing call ends the process, so one failing call per run is enough.
Calls ==
    {Call(m, "") : m \in {"conversations.members", "chat.postMessage"}}
    \cup {Call(m, u) : m \in {"users.info", "users.getPresence"}, u \in UserIds}
Fails == Calls \cup {NoFail}

\* What users.getPresence answers during one handler run: active or not, per user.
\* (A bot account is never asked: _update_user returns before the call.)
Presences == {pres \in [UserIds -> BOOLEAN] : \A u \in UserIds \ Humans : ~pres[u]}

\* The answers of Slack during one handler run.
Input(pres, fail) == [pres |-> pres, fail |-> fail]
AllInputs == {Input(pres, fail) : pres \in Presences, fail \in Fails}

\* ------------------------------------------------------------ texts
\* A text is a sequence of atoms: the blank " ", a mention "<@ID>", or a word.
Blank == " "
Mention(user_id) == "<@" \o user_id \o ">"
\* str.lower() on the atoms in use.
Lower(atom) ==
    CASE atom = "HELLO" -> "hello"
      [] atom = "Scores" -> "scores"
      [] atom = "SAVE" -> "save"
      [] OTHER -> atom

\* str.split(): the maximal runs of non-blank atoms, in order.
RECURSIVE SplitFrom(_, _, _)
SplitFrom(text, i, cur) ==
    IF i > Len(text)
    THEN IF cur = <<>> THEN <<>> ELSE <<cur>>
    ELSE IF text[i] = Blank
         THEN IF cur = <<>>
              THEN SplitFrom(text, i + 1, <<>>)
              ELSE <<cur>> \o SplitFrom(text, i + 1, <<>>)
         ELSE SplitFrom(text, i + 1, Append(cur, text[i]))
split(text) == SplitFrom(text, 1, <<>>)

\* text.startswith('<@{}>'.format(self._id))
startswith_mention(text, id) == Len(text) >= 1 /\ text[1] = Mention(id)

\* command.lower() == word
lower_is(command, word) ==
    [i \in 1..Len(command) |-> Lower(command[i])] = <<word>>

\* ------------------------------------------------------------ events
MessageEvent(text, channel) == [type |-> "message", text |-> text, channel |-> channel]
PresenceEvent(user_id) == [type |-> "presence_change", user |-> user_id]

Addressed(word) == <<Mention(SelfId), Blank, word>>

Events ==
    {PresenceEvent(u) : u \in UserIds}
    \cup {MessageEvent(Addressed(w), "C1") : w \in {"hello", "save", "load"}}
    \cup {MessageEvent(Addressed("Scores"), "D1")}

Batches(events) == UNION {[1..n -> events] : n \in 0..MaxBatch}

\* ------------------------------------------------------------- state
VARIABLES
    phase,      \* where connect() stands: Disconnected, Connecting, Syncing, Running, Stopped
    self_id,    \* self._id
    rpg_channel_id,  \* self._rpg_channel_id
    users,      \* self._users: user id -> record
    db,         \* the ledger on disk (db.save / db.load)
    batch,      \* the events of the last rtm_read() not yet handled
    outbox,     \* the chat.postMessage calls made since the last rtm_read()
    now,        \* time.time()
    recorded_active   \* history: per user, the seconds that passed while its record was active

vars == <<phase, self_id, rpg_channel_id, users, db, batch, outbox, now, recorded_active>>

\* Python's None, and a set value.
None == <<>>
Some(v) == <<v>>

\* ------------------------------------------------- presence tracking
set_online(us, user_id, t) ==
    [us EXCEPT ![user_id].active = TRUE,
               ![user_id].first_seen = Some(t)]

\* Faulty variants of set_offline: the total is overwritten by the last session;
\* the elapsed time is added twice; the session start is not subtracted; the
\* session start is not cleared.
set_offline_overwrites(us, user_id, t) ==
    [us EXCEPT ![user_id].active = FALSE,
               ![user_id].total = t - us[user_id].first_seen[1],
               ![user_id].first_seen = None]

set_offline_twice(us, user_id, t) ==
    [us EXCEPT ![user_id].active = FALSE,
               ![user_id].total = @ + 2 * (t - us[user_id].first_seen[1]),
               ![user_id].first_seen = None]

set_offline_adds_now(us, user_id, t) ==
    [us EXCEPT ![user_id].active = FALSE,
               ![user_id].total = @ + t,
               ![user_id].first_seen = None]

set_offline_keeps_start(us, user_id, t) ==
    [us EXCEPT ![user_id].active = FALSE,
               ![user_id].total = @ + (t - us[user_id].first_seen[1])]

set_offline(us, user_id, t) ==
    [us EXCEPT ![user_id].active = FALSE,
               ![user_id].total = @ + (t - us[user_id].first_seen[1]),
               ![user_id].first_seen = None]

\* The part of the bot a handler reads and writes, and whether it has raised.
Machine(us, d, out) == [users |-> us, db |-> d, outbox |-> out, raised |-> FALSE]
Raise(m) == [m EXCEPT !.raised = TRUE]

new_record(info) ==
    [profile |-> info.profile, active |-> FALSE, first_seen |-> None, total |-> 0]

\* Faulty variant of sync_presence: an active answer starts a session again even
\* when the record is already active.
sync_presence_restarts(m, user_id, pres, t, fail) ==
    IF fail = Call("users.getPresence", user_id)
    THEN Raise(m)
    ELSE IF pres[user_id]
         THEN [m EXCEPT !.users = set_online(@, user_id, t)]
         ELSE IF m.users[user_id].active
              THEN [m EXCEPT !.users = set_offline(@, user_id, t)]
              ELSE m

\* The presence half of _update_user: ask Slack, then open or close the session.
sync_presence(m, user_id, pres, t, fail) ==
    IF fail = Call("users.getPresence", user_id)
    THEN Raise(m)
    ELSE IF pres[user_id]
         THEN IF ~m.users[user_id].active
              THEN [m EXCEPT !.users = set_online(@, user_id, t)]
              ELSE m
         ELSE IF m.users[user_id].active
              THEN [m EXCEPT !.users = set_offline(@, user_id, t)]
              ELSE m

\* Faulty variants of _update_user: the bot check is missing; a new record
\* replaces the whole dictionary.
_update_user_admits_bots(m, user_id, pres, t, fail) ==
    IF user_id \notin DOMAIN m.users
    THEN IF fail = Call("users.info", user_id)
         THEN Raise(m)
         ELSE sync_presence(
                  [m EXCEPT !.users = @ @@ (user_id :> new_record(UserInfo(user_id)))],
                  user_id, pres, t, fail)
    ELSE sync_presence(m, user_id, pres, t, fail)

_update_user_replaces(m, user_id, pres, t, fail) ==
    IF user_id \notin DOMAIN m.users
    THEN IF fail = Call("users.info", user_id)
         THEN Raise(m)
         ELSE IF UserInfo(user_id).is_bot
              THEN m
              ELSE sync_presence(
                       [m EXCEPT !.users = (user_id :> new_record(UserInfo(user_id)))],
                       user_id, pres, t, fail)
    ELSE sync_presence(m, user_id, pres, t, fail)

\* ... ; the record is made anew although the user has one.
_update_user_recreates(m, user_id, pres, t, fail) ==
    IF fail = Call("users.info", user_id)
    THEN Raise(m)
    ELSE IF UserInfo(user_id).is_bot
         THEN m
         ELSE sync_presence(
                  [m EXCEPT !.users = (user_id :> new_record(UserInfo(user_id))) @@ @],
                  user_id, pres, t, fail)

_update_user(m, user_id, pres, t, fail) ==
    IF user_id \notin DOMAIN m.users
    THEN IF fail = Call("users.info", user_id)
         THEN Raise(m)
         ELSE IF UserInfo(user_id).is_bot
              THEN m
              ELSE sync_presence(
                       [m EXCEPT !.users = @ @@ (user_id :> new_record(UserInfo(user_id)))],
                       user_id, pres, t, fail)
    ELSE sync_presence(m, user_id, pres, t, fail)

RECURSIVE update_members(_, _, _, _, _)
update_members(m, member_ids, pres, t, fail) ==
    IF member_ids = <<>> \/ m.raised
    THEN m
    ELSE update_members(_update_user(m, Head(member_ids), pres, t, fail),
                        Tail(member_ids), pres, t, fail)

_update_all_users(m, pres, t, fail) ==
    IF fail = Call("conversations.members", "")
    THEN Raise(m)
    ELSE update_members(m, ChannelMembers, pres, t, fail)

\* -------------------------------------------------------- persistence
\* The db module: one ledger on disk, written whole and read back whole.
db_save(us) == us
db_load(d) == d

\* Faulty variants of save: the records already on disk are kept; the sessions
\* are closed in the ledger itself, not in a copy; the ledger is written as it
\* is, open sessions included.
save_merges(m, t) ==
    LET current_users ==
            [user_id \in DOMAIN m.users |->
                IF m.users[user_id].active
                THEN set_offline(m.users, user_id, t)[user_id]
                ELSE m.users[user_id]]
    IN  [m EXCEPT !.db = db_save(m.db @@ current_users)]

save_in_place(m, t) ==
    LET current_users ==
            [user_id \in DOMAIN m.users |->
                IF m.users[user_id].active
                THEN set_offline(m.users, user_id, t)[user_id]
                ELSE m.users[user_id]]
    IN  [m EXCEPT !.users = current_users, !.db = db_save(current_users)]

save_as_is(m, t) == [m EXCEPT !.db = db_save(m.users)]

save(m, t) ==
    LET current_users ==
            [user_id \in DOMAIN m.users |->
                IF m.users[user_id].active
                THEN set_offline(m.users, user_id, t)[user_id]
                ELSE m.users[user_id]]
    IN  [m EXCEPT !.db = db_save(current_users)]

\* Faulty variant of load: records already in memory win over the ones on disk.
load_keeps_live(m) == [m EXCEPT !.users = @ @@ db_load(m.db)]

load(m) == [m EXCEPT !.users = db_load(m.db)]

\* ----------------------------------------------------------- commands
send_message(m, channel_id, message, fail) ==
    LET sent == [m EXCEPT !.outbox = Append(@, [channel |-> channel_id, text |-> message])]
    IN  IF fail = Call("chat.postMessage", "") THEN Raise(sent) ELSE sent

_hello(m, channel_id, fail) ==
    send_message(m, channel_id, [head |-> "Hello from Python! :tada:", lines |-> <<>>], fail)

\* The name fallback of the scores command.
score_name(profile) ==
    IF profile.display_name # "" THEN profile.display_name
    ELSE IF profile.real_name # "" THEN profile.real_name
    ELSE profile.email

\* Faulty variant of score_line: the open session is left out.
score_line_closed_only(user, t) ==
    [name |-> score_name(user.profile), total |-> user.total]

score_line(user, t) ==
    [name |-> score_name(user.profile),
     total |-> IF user.active THEN user.total + (t - user.first_seen[1]) ELSE user.total]

\* The keys of a ledger as a sequence (dict iteration; no claim depends on the order).
KeyOrder == <<"U1", "U2", "B1">>
RECURSIVE keys_from(_, _)
keys_from(us, i) ==
    IF i > Len(KeyOrder) THEN <<>>
    ELSE IF KeyOrder[i] \in DOMAIN us
         THEN <<KeyOrder[i]>> \o keys_from(us, i + 1)
         ELSE keys_from(us, i + 1)
keys(us) == keys_from(us, 1)

scores(us, t) ==
    LET ks == keys(us)
    IN  [head |-> "Scores:", lines |-> [i \in 1..Len(ks) |-> score_line(us[ks[i]], t)]]

\* Faulty variant of _handle_command: load is not followed by the membership sync.
_handle_command_load_only(m, event, command, args, pres, t, fail) ==
    IF lower_is(command, "hello") \/ lower_is(command, "hi")
    THEN IF "channel" \in DOMAIN event THEN _hello(m, event.channel, fail) ELSE Raise(m)
    ELSE IF lower_is(command, "scores")
    THEN IF "channel" \in DOMAIN event
         THEN send_message(m, event.channel, scores(m.users, t), fail)
         ELSE Raise(m)
    ELSE IF lower_is(command, "save")
    THEN save(m, t)
    ELSE IF lower_is(command, "load")
    THEN load(m)
    ELSE m

_handle_command(m, event, command, args, pres, t, fail) ==
    IF lower_is(command, "hello") \/ lower_is(command, "hi")
    THEN IF "channel" \in DOMAIN event THEN _hello(m, event.channel, fail) ELSE Raise(m)
    ELSE IF lower_is(command, "scores")
    THEN IF "channel" \in DOMAIN event
         THEN send_message(m, event.channel, scores(m.users, t), fail)
         ELSE Raise(m)
    ELSE IF lower_is(command, "save")
    THEN save(m, t)
    ELSE IF lower_is(command, "load")
    THEN _update_all_users(load(m), pres, t, fail)
    ELSE m

\* What _handle_message makes of a text: the command and the arguments it passes
\* to _handle_command, or None when it passes nothing.
command_call(text, id) ==
    IF startswith_mention(text, id)
    THEN LET chunks == split(text)
         IN  IF Len(chunks) > 1
             THEN Some([command |-> chunks[2],
                        args |-> IF Len(chunks) > 2 THEN SubSeq(chunks, 3, Len(chunks)) ELSE <<>>])
             ELSE None
    ELSE None

\* Faulty variant of _handle_message: the mention of the bot is not asked for.
_handle_message_unaddressed(m, event, id, pres, t, fail) ==
    IF "text" \notin DOMAIN event
    THEN Raise(m)
    ELSE LET chunks == split(event.text)
         IN  IF Len(chunks) > 1
             THEN _handle_command(m, event, chunks[2],
                                  IF Len(chunks) > 2 THEN SubSeq(chunks, 3, Len(chunks)) ELSE <<>>,
                                  pres, t, fail)
             ELSE m

_handle_message(m, event, id, pres, t, fail) ==
    IF "text" \notin DOMAIN event
    THEN Raise(m)
    ELSE LET call == command_call(event.text, id)
         IN  IF call # None
             THEN _handle_command(m, event, call[1].command, call[1].args, pres, t, fail)
             ELSE m

_handle_presence_change(m, event, pres, t, fail) ==
    IF "user" \notin DOMAIN event
    THEN Raise(m)
    ELSE _update_user(m, event.user, pres, t, fail)

_handle_event(m, event, id, pres, t, fail) ==
    IF "type" \notin DOMAIN event
    THEN Raise(m)
    ELSE IF event.type = "message"
         THEN _handle_message(m, event, id, pres, t, fail)
         ELSE IF event.type = "presence_change"
              THEN _handle_presence_change(m, event, pres, t, fail)
              ELSE m

\* The event is a message that _handle_message passes on as the command `word`.
is_command(event, id, word) ==
    /\ "type" \in DOMAIN event
    /\ event.type = "message"
    /\ "text" \in DOMAIN event
    /\ startswith_mention(event.text, id)
    /\ Len(split(event.text)) > 1
    /\ lower_is(split(event.text)[2], word)

\* The users whose profile or presence handling the event can fetch.
asked_users(event, id) ==
    IF "type" \in DOMAIN event /\ event.type = "presence_change" /\ "user" \in DOMAIN event
    THEN {event.user}
    ELSE IF is_command(event, id, "load")
         THEN {ChannelMembers[i] : i \in 1..Len(ChannelMembers)}
         ELSE {}

\* The inputs that can make a difference to handling the event: the answers about
\* users that are not asked are held fixed.
InputsOf(event, id) ==
    LET asked == asked_users(event, id)
    IN  {Input(pres, fail) :
            pres \in {p \in Presences : \A u \in UserIds \ asked : ~p[u]},
            fail \in {f \in Fails : f.user \in asked \cup {""}}}

\* Every way handling the event can end.
outcomes(m, event, id, t) ==
    {_handle_event(m, event, id, in.pres, t, in.fail) : in \in InputsOf(event, id)}

\* ------------------------------------------------------------ actions
\* After IdleRpgBot(...): nothing on disk, so load() gives the empty ledger.
Init ==
    /\ phase = "Disconnected"
    /\ self_id = None
    /\ rpg_channel_id = None
    /\ db = <<>>
    /\ users = load(Machine(<<>>, db, <<>>)).users
    /\ batch = <<>>
    /\ outbox = <<>>
    /\ now = 0
    /\ recorded_active = [u \in UserIds |-> 0]

\* bot.connect() is entered.
Connect ==
    /\ phase = "Disconnected"
    /\ phase' = "Connecting"
    /\ UNCHANGED <<self_id, rpg_channel_id, users, db, batch, outbox, now,
                 recorded_active>>

\* self._api.connect(): rtm_connect() succeeds or RuntimeError('Connection Failed').
ApiConnect ==
    /\ phase = "Connecting"
    /\ \E ok \in BOOLEAN : phase' = IF ok THEN "Syncing" ELSE "Stopped"
    /\ UNCHANGED <<self_id, rpg_channel_id, users, db, batch, outbox, now,
                 recorded_active>>

\* _post_connection_init(): own identity, channel by name (RuntimeError when it is
\* not found or channels.list fails), then the membership sync.
PostConnectionInit ==
    /\ phase = "Syncing"
    /\ self_id' = Some(SelfId)
    /\ \/ /\ phase' = "Stopped"
          /\ UNCHANGED <<rpg_channel_id, users>>
       \/ \E m \in {_update_all_users(Machine(users, db, outbox), in.pres, now, in.fail) :
                        in \in AllInputs} :
              /\ rpg_channel_id' = Some(RpgChannelId)
              /\ users' = m.users
              /\ phase' = IF m.raised THEN "Stopped" ELSE "Running"
    /\ UNCHANGED <<db, batch, outbox, now, recorded_active>>

\* events = self._api.read(), once the previous batch is handled.
ReadFrom(batches) ==
    /\ phase = "Running"
    /\ batch = <<>>
    /\ \E events \in batches : batch' = events
    /\ outbox' = <<>>
    /\ UNCHANGED <<phase, self_id, rpg_channel_id, users, db, now,
                   recorded_active>>

Read == ReadFrom(Batches(Events))

\* Faulty variant of HandleEvent: the newest event of the batch is handled first.
HandleNewestEvent ==
    /\ phase = "Running"
    /\ batch # <<>>
    /\ \E m \in outcomes(Machine(users, db, outbox), batch[Len(batch)], self_id[1], now) :
              /\ users' = m.users
              /\ db' = m.db
              /\ outbox' = m.outbox
              /\ phase' = IF m.raised THEN "Stopped" ELSE "Running"
    /\ batch' = SubSeq(batch, 1, Len(batch) - 1)
    /\ UNCHANGED <<self_id, rpg_channel_id, now, recorded_active>>

\* self._handle_event(event) for the next event of the batch.
HandleEvent ==
    /\ phase = "Running"
    /\ batch # <<>>
    /\ \E m \in outcomes(Machine(users, db, outbox), Head(batch), self_id[1], now) :
              /\ users' = m.users
              /\ db' = m.db
              /\ outbox' = m.outbox
              /\ phase' = IF m.raised THEN "Stopped" ELSE "Running"
    /\ batch' = Tail(batch)
    /\ UNCHANGED <<self_id, rpg_channel_id, now, recorded_active>>

\* The process is started again: a new IdleRpgBot loads the ledger from disk.
Restart ==
    /\ phase' = "Disconnected"
    /\ self_id' = None
    /\ rpg_channel_id' = None
    /\ users' = load(Machine(<<>>, db, <<>>)).users
    /\ batch' = <<>>
    /\ outbox' = <<>>
    /\ UNCHANGED <<db, now, recorded_active>>

\* The clock advances.
Tick ==
    /\ now < MaxTime
    /\ now' = now + 1
    /\ recorded_active' =
          [u \in UserIds |->
              recorded_active[u] + IF u \in DOMAIN users /\ users[u].active THEN 1 ELSE 0]
    /\ UNCHANGED <<phase, self_id, rpg_channel_id, users, db, batch, outbox>>

Next ==
    \/ Connect
    \/ ApiConnect
    \/ PostConnectionInit
    \/ Read
    \/ HandleEvent
    \/ Restart
    \/ Tick

Spec == Init /\ [][Next]_vars

\* The same program when no load command arrives and the process is not restarted.
NoLoadEvents == {e \in Events : ~is_command(e, SelfId, "load")}
ReadNoLoad == ReadFrom(Batches(NoLoadEvents))

NextNoLoad ==
    \/ Connect
    \/ ApiConnect
    \/ PostConnectionInit
    \/ ReadNoLoad
    \/ HandleEvent
    \/ Tick

SpecNoLoad == Init /\ [][NextNoLoad]_vars

\* The same program when Slack also delivers events the bot has no use for
\* (another type, a message for someone else, an unknown command), a command
\* written right after the mention, and events that lack a field.
OtherTypeEvent == [type |-> "user_typing", channel |-> "C1", user |-> "U1"]
UnaddressedEvent == MessageEvent(<<Mention("U1"), Blank, "save">>, "C1")
UnknownCommandEvent == MessageEvent(<<Mention(SelfId), Blank, "dance", Blank, "hello">>, "C1")
GluedEvent == MessageEvent(<<Mention(SelfId), "save", Blank, "load">>, "C1")
MalformedEvents ==
    {[channel |-> "C1"],
     [type |-> "message", channel |-> "C1"],
     [type |-> "presence_change"],
     [type |-> "message", text |-> Addressed("hello")]}

DispatchEvents ==
    {PresenceEvent("U1")}
    \cup {MessageEvent(Addressed(w), "C1") : w \in {"hello", "save", "load"}}
    \cup {MessageEvent(Addressed("Scores"), "D1")}
    \cup {OtherTypeEvent, UnaddressedEvent, UnknownCommandEvent, GluedEvent}
    \cup MalformedEvents

ReadDispatch == ReadFrom(Batches(DispatchEvents))

NextDispatch ==
    \/ Connect
    \/ ApiConnect
    \/ PostConnectionInit
    \/ ReadDispatch
    \/ HandleEvent
    \/ Restart
    \/ Tick

SpecDispatch == Init /\ [][NextDispatch]_vars

\* The same program when the wall clock can be set back: time.time() is not
\* monotonic.  A step back is taken only while no total is negative and no user
\* has more recorded time than the clock shows, which keeps the totals bounded.
ClockBack ==
    /\ now > 0
    /\ \A u \in UserIds : recorded_active[u] < now
    /\ \A u \in DOMAIN users : users[u].total >= 0
    /\ now' = now - 1
    /\ UNCHANGED <<phase, self_id, rpg_channel_id, users, db, batch, outbox, recorded_active>>

SkewEvents ==
    {PresenceEvent("U1"),
     MessageEvent(Addressed("save"), "C1"),
     MessageEvent(Addressed("Scores"), "D1")}

ReadSkew == ReadFrom(Batches(SkewEvents))

NextSkew ==
    \/ Connect
    \/ ApiConnect
    \/ PostConnectionInit
    \/ ReadSkew
    \/ HandleEvent
    \/ Restart
    \/ Tick
    \/ ClockBack

SpecSkew == Init /\ [][NextSkew]_vars

\* The same program when rtm_read() delivers several events at once, one of
\* them without a type.
LoopEvents ==
    {PresenceEvent("U1"),
     MessageEvent(Addressed("hello"), "C1"),
     MessageEvent(Addressed("save"), "C1"),
     [channel |-> "C1"]}

LoopBatches(events) == UNION {[1..n -> events] : n \in 0..MaxLoopBatch}
ReadLoop == ReadFrom(LoopBatches(LoopEvents))

NextLoop ==
    \/ Connect
    \/ ApiConnect
    \/ PostConnectionInit
    \/ ReadLoop
    \/ HandleEvent
    \/ Restart
    \/ Tick

SpecLoop == Init /\ [][NextLoop]_vars

\* ------------------------------------------------- vocabulary of the claims
\* liveTotal of the specification: the closed sessions plus the open one.
LiveTotal(user, t) ==
    IF user.active THEN user.total + (t - user.first_seen[1]) ELSE user.total

\* This step handles the first event of the batch (HandleEvent is the only
\* action that shortens the batch of a running bot and leaves it running or stopped).
Handled ==
    /\ phase = "Running"
    /\ batch # <<>>
    /\ batch' = Tail(batch)
    /\ phase' # "Disconnected"

HandledCommand(word) == Handled /\ is_command(Head(batch), self_id[1], word)
HandledPresence(u) == Handled /\ Head(batch) = PresenceEvent(u)

\* This step starts the process again.
Restarted == phase # "Disconnected" /\ phase' = "Disconnected"

\* This step runs the membership sync of _post_connection_init.
Synced == phase = "Syncing" /\ phase' # "Disconnected"

Members == {ChannelMembers[i] : i \in 1..Len(ChannelMembers)}

\* The calls about a user (or about no user) that can fail, and the presence
\* answers that say `active` about a user.
FailsAbout == [u \in UserIds |-> {f \in Fails : f.user \in {u, ""}}]
PresencesSaying == [u \in UserIds |-> [active \in BOOLEAN |-> {p \in Presences : p[u] = active}]]
\* The same for the members together: what the membership sync can be answered.
MemberFails == {f \in Fails : f.user \in Members \cup {""}}
MemberPresences == {p \in Presences : \A u \in UserIds \ Members : ~p[u]}

\* ------------------------------------------------------------ claims
\* C1, as stated: across presence transitions, saves, loads and restarts, every
\* user's live total equals the time that passed while the user was recorded
\* active since first observation.
C1_LiveTotalIsAllRecordedTime ==
    \A u \in DOMAIN users : LiveTotal(users[u], now) = recorded_active[u]

\* C1, amended: in every step other than a load command or a restart, no record
\* disappears and every live total grows by exactly the time that passes while
\* the record is active (a new record starts at 0); a load command or a restart
\* sets every live total to the total on disk (0 for a member without a record
\* on disk).
C1_LiveTotalStepwise ==
    [][\A u \in DOMAIN users \cup DOMAIN users' :
          IF HandledCommand("load") \/ Restarted
          THEN u \in DOMAIN users' =>
                  LiveTotal(users'[u], now') = IF u \in DOMAIN db THEN db[u].total ELSE 0
          ELSE /\ u \in DOMAIN users'
               /\ LiveTotal(users'[u], now') =
                      IF u \in DOMAIN users
                      THEN LiveTotal(users[u], now)
                             + IF users[u].active THEN now' - now ELSE 0
                      ELSE 0]_vars

\* A running bot whose ledger shows less than the time a user was recorded
\* active: a load or a restart has dropped time, and accounting went on.
C1_TimeDroppedByLoad ==
    /\ phase = "Running"
    /\ \E u \in DOMAIN users :
          /\ users[u].total >= 1
          /\ recorded_active[u] > LiveTotal(users[u], now)

\* C2: without load and restart, a record that is inactive (an even number of
\* transitions since its creation) has a total equal to the summed length of its
\* sessions, whatever is interleaved for other users.
C2_TotalIsSumOfSessions ==
    \A u \in DOMAIN users :
        ~users[u].active => users[u].total = recorded_active[u]

C2_TwoUsersInterleaved ==
    /\ DOMAIN users = Humans
    /\ ~users["U1"].active /\ users["U1"].total = 2 /\ recorded_active["U1"] = 2
    /\ ~users["U2"].active /\ users["U2"].total = 1 /\ recorded_active["U2"] = 1

\* C3: a presence update that reports the state the record already has changes
\* nothing: not the ledger, not the disk, no message; without a failing call
\* the handler ends as it began.
C3_ReobservingIsNoOp ==
    \A u \in DOMAIN users :
        \A pres \in PresencesSaying[u][users[u].active], fail \in FailsAbout[u] :
            LET m == Machine(users, db, outbox)
                r == _handle_presence_change(m, PresenceEvent(u), pres, now, fail)
            IN  /\ r.users = users
                /\ r.db = db
                /\ r.outbox = outbox
                /\ fail = NoFail => r = m

\* A presence event is about to be handled for a user in a second session that
\* began earlier.
C3_ActiveSessionRunning ==
    /\ phase = "Running"
    /\ batch # <<>>
    /\ \E u \in DOMAIN users :
          /\ Head(batch) = PresenceEvent(u)
          /\ users[u].active
          /\ users[u].total > 0
          /\ users[u].first_seen # None
          /\ users[u].first_seen[1] < now

\* C4: every record of the live ledger has first_seen set exactly when it is active.
C4_SessionStartIffActive ==
    \A u \in DOMAIN users : (users[u].first_seen # None) <=> users[u].active

\* A reloaded ledger with one user in a session and another one out of it.
C4_OpenAndClosedRecords ==
    /\ phase = "Running"
    /\ db # <<>>
    /\ \E u, v \in DOMAIN users :
          /\ users[u].active /\ users[u].total > 0
          /\ ~users[v].active /\ users[v].total > 0

\* C5, as stated: in every step that leaves the bot running (presence updates,
\* the sync, hello, scores, save and load commands) a total never decreases, and
\* it changes only when the session closes, by exactly now - first_seen.
C5_TotalOnlyGrowsAtClose ==
    [][phase' = "Running" =>
          \A u \in DOMAIN users \cap DOMAIN users' :
              /\ users'[u].total >= users[u].total
              /\ users'[u].total # users[u].total =>
                    /\ users[u].active /\ ~users'[u].active
                    /\ users'[u].total = users[u].total + (now - users[u].first_seen[1])]_vars

\* C5, amended: that holds in every step other than a load command or a restart;
\* those replace the total by the one on disk (0 for a member without a record
\* on disk), which can be lower or higher.
C5_TotalOnlyGrowsAtCloseOrLoad ==
    [][\A u \in DOMAIN users \cap DOMAIN users' :
          IF HandledCommand("load") \/ Restarted
          THEN users'[u].total = IF u \in DOMAIN db THEN db[u].total ELSE 0
          ELSE /\ users'[u].total >= users[u].total
               /\ users'[u].total # users[u].total =>
                     /\ users[u].active /\ ~users'[u].active
                     /\ users'[u].total = users[u].total + (now - users[u].first_seen[1])]_vars

\* A user with closed sessions of 2 seconds of which 1 is on disk.
C5_ClosedSessionAfterSave ==
    /\ phase = "Running"
    /\ \E u \in DOMAIN users \cap DOMAIN db :
          ~users[u].active /\ users[u].total = 2 /\ db[u].total = 1

\* C6, as stated: no step that leaves the bot running (save and load included)
\* removes a record, and a record appears only for a human user, through a
\* presence event for that user or through the membership sync.
C6_RecordsNeverDeleted ==
    [][phase' = "Running" =>
          /\ \A u \in DOMAIN users : u \in DOMAIN users'
          /\ \A u \in DOMAIN users' \ DOMAIN users :
                /\ ~UserInfo(u).is_bot
                /\ \/ HandledPresence(u)
                   \/ (Synced \/ HandledCommand("load")) /\ u \in Members]_vars

\* C6, amended: no step other than a load command or a restart removes a record;
\* after a load command the ledger holds the records on disk and those of the
\* members synced, and nothing else.  A record appears only as stated.
C6_RecordsDeletedOnlyByLoad ==
    [][/\ \A u \in DOMAIN users :
             \/ u \in DOMAIN users'
             \/ Restarted
             \/ HandledCommand("load") /\ u \notin DOMAIN db
       /\ HandledCommand("load") => DOMAIN db \subseteq DOMAIN users'
       /\ \A u \in DOMAIN users' \ DOMAIN users :
             /\ ~UserInfo(u).is_bot
             /\ \/ HandledPresence(u)
                \/ (Synced \/ HandledCommand("load")) /\ u \in Members]_vars

\* A user that was recorded active has no record in the running bot.
C6_RecordDropped ==
    /\ phase = "Running"
    /\ \E u \in UserIds \ DOMAIN users : recorded_active[u] > 0

\* C7: no bot account has a record, in memory or on disk, and an update for a
\* bot account (a presence event, an entry of the membership sync) changes
\* neither the ledger nor the disk and sends nothing.
C7_BotsNeverAdmitted ==
    \A b \in {u \in UserIds : UserInfo(u).is_bot} :
        /\ b \notin DOMAIN users
        /\ b \notin DOMAIN db
        /\ \A pres \in Presences, fail \in FailsAbout[b] :
              LET r == _update_user(Machine(users, db, outbox), b, pres, now, fail)
              IN  r.users = users /\ r.db = db /\ r.outbox = outbox

\* The sync has met the bot among the members, and a presence event of the bot
\* is about to be handled.
C7_BotEventPending ==
    /\ phase = "Running"
    /\ batch # <<>>
    /\ Head(batch) = PresenceEvent("B1")
    /\ DOMAIN users = Humans
    /\ DOMAIN db = Humans

\* C8: handling a scores command makes exactly one chat.postMessage call, to the
\* channel of the event, with one line per record whose value is the total, plus
\* now - first_seen when the record is active; ledger and disk stay as they are.
C8_ScoresReportsLiveTotals ==
    [][HandledCommand("scores") =>
          /\ users' = users
          /\ db' = db
          /\ Len(outbox') = Len(outbox) + 1
          /\ SubSeq(outbox', 1, Len(outbox)) = outbox
          /\ LET msg == outbox'[Len(outbox')]
                 lines == msg.text.lines
             IN  /\ msg.channel = Head(batch).channel
                 /\ msg.text.head = "Scores:"
                 /\ Len(lines) = Cardinality(DOMAIN users)
                 /\ \E f \in [DOMAIN users -> 1..Len(lines)] :
                       /\ \A u, v \in DOMAIN users : f[u] = f[v] => u = v
                       /\ \A u \in DOMAIN users :
                             lines[f[u]].total =
                                 IF users[u].active
                                 THEN users[u].total + (now - users[u].first_seen[1])
                                 ELSE users[u].total]_vars

\* The scores of two users were sent, one of them in a session that has lasted.
C8_ScoresSentDuringSession ==
    /\ phase = "Running"
    /\ Len(outbox) = 1
    /\ outbox[1].channel = "D1"
    /\ outbox[1].text.head = "Scores:"
    /\ Len(outbox[1].text.lines) = 2
    /\ \E u \in DOMAIN users :
          /\ users[u].active
          /\ users[u].first_seen # None
          /\ users[u].first_seen[1] < now
          /\ \E i \in 1..2 : outbox[1].text.lines[i].total > users[u].total

\* C9: a save command writes, for every user that is inactive, a record with the
\* total the user has; no other step changes the disk; and a load (load command,
\* or the load of a new process) gives every user on disk a record with the total
\* on disk.  So a load after a save shows, for each user inactive at the save,
\* the total of that moment.
C9_SaveLoadRoundTrip ==
    [][/\ HandledCommand("save") =>
             \A u \in DOMAIN users :
                 ~users[u].active => u \in DOMAIN db' /\ db'[u].total = users[u].total
       /\ ~HandledCommand("save") => db' = db
       /\ HandledCommand("load") \/ Restarted =>
             \A u \in DOMAIN db :
                 u \in DOMAIN users' /\ users'[u].total = db[u].total]_vars

\* A user shows the total on disk again, although more time was recorded for it
\* after the save: a load has brought the saved total back.
C9_SavedTotalRestored ==
    /\ phase = "Running"
    /\ \E u \in DOMAIN db \cap DOMAIN users :
          /\ db[u].total > 0
          /\ ~users[u].active
          /\ users[u].total = db[u].total
          /\ recorded_active[u] > db[u].total

\* C10: no record on disk is in a session, and a save command writes for every
\* record of the ledger its live total at that moment (nothing else).
C10_DiskHasNoOpenSession ==
    [][/\ \A u \in DOMAIN db' : ~db'[u].active /\ db'[u].first_seen = None
       /\ HandledCommand("save") =>
             /\ DOMAIN db' = DOMAIN users
             /\ \A u \in DOMAIN users : db'[u].total = LiveTotal(users[u], now)]_vars

\* Saved in a session: 1 second closed before, 1 second elapsed, 2 on disk.
C10_SavedDuringSession ==
    /\ now = 2
    /\ \E u \in DOMAIN users \cap DOMAIN db :
          /\ users[u].active
          /\ users[u].total = 1
          /\ users[u].first_seen = Some(1)
          /\ db[u].total = 2

\* C11: a save command leaves the live ledger as it was: the same users, and for
\* every user the same active flag, first_seen and total; it sends nothing and
\* the bot keeps running.
C11_SaveLeavesLedgerUnchanged ==
    [][HandledCommand("save") =>
          /\ users' = users
          /\ outbox' = outbox
          /\ phase' = "Running"]_vars

\* A user in a session since 0 whose 2 seconds are on disk as a closed record.
C11_StillActiveAfterSave ==
    /\ phase = "Running"
    /\ now = 2
    /\ \E u \in DOMAIN users \cap DOMAIN db :
          /\ users[u].active
          /\ users[u].first_seen = Some(0)
          /\ users[u].total = 0
          /\ ~db[u].active
          /\ db[u].total = 2

\* The non-bot members of the channel.
HumanMembers == {u \in Members : ~UserInfo(u).is_bot}

\* C12: when a load command is handled and no call fails, whatever Slack answers
\* about presence: the ledger has the keys on disk plus the non-bot members;
\* every total is the one on disk (0 for a member not on disk); a user who is
\* not a member has exactly its record on disk; and every non-bot member is
\* active as its presence says, with first_seen the time of the load when active.
C12_LoadReplacesThenSyncs ==
    (phase = "Running" /\ batch # <<>> /\ is_command(Head(batch), self_id[1], "load")) =>
        \A pres \in Presences :
            LET r == _handle_event(Machine(users, db, outbox), Head(batch), self_id[1],
                                   pres, now, NoFail)
            IN  /\ ~r.raised
                /\ r.db = db
                /\ r.outbox = outbox
                /\ DOMAIN r.users = DOMAIN db \cup HumanMembers
                /\ \A u \in DOMAIN r.users :
                      /\ r.users[u].total = IF u \in DOMAIN db THEN db[u].total ELSE 0
                      /\ u \notin Members => r.users[u] = db[u]
                      /\ u \in Members =>
                            /\ r.users[u].active = pres[u]
                            /\ r.users[u].first_seen = IF pres[u] THEN Some(now) ELSE None

\* A load command is about to be handled while the ledger differs from the disk:
\* a member has more time than saved and a user is not on disk at all.
C12_LoadPendingOnChangedLedger ==
    /\ phase = "Running"
    /\ batch # <<>>
    /\ is_command(Head(batch), self_id[1], "load")
    /\ \E u \in HumanMembers \cap DOMAIN db : db[u].total > 0 /\ users[u].total > db[u].total
    /\ \E v \in DOMAIN users : v \notin DOMAIN db /\ v \notin Members /\ users[v].active

\* Running the membership sync on the ledger `us`, whatever Slack answers about
\* the members and whichever of its calls fails: every record stays, with its
\* profile and a total not below the one it had (and the same total if the user
\* is not in a session); the record of a user in a session who is reported active
\* stays as it is; the record of a user who is not a member stays as it is.
ResyncKeeps(us) ==
    \A pres \in MemberPresences, fail \in MemberFails :
        LET r == _update_all_users(Machine(us, db, outbox), pres, now, fail)
        IN  \A u \in DOMAIN us :
                /\ u \in DOMAIN r.users
                /\ r.users[u].profile = us[u].profile
                /\ r.users[u].total >= us[u].total
                /\ ~us[u].active => r.users[u].total = us[u].total
                /\ (us[u].active /\ pres[u]) => r.users[u] = us[u]
                /\ u \notin Members => r.users[u] = us[u]

\* C13: the membership sync keeps totals and running sessions wherever it runs
\* or could be started: on the ledger as it is at start-up and between batches,
\* and on the ledger just loaded when a load command is handled.
C13_ResyncKeepsTotals ==
    /\ batch = <<>> => ResyncKeeps(users)
    /\ (phase = "Running" /\ batch # <<>> /\ is_command(Head(batch), self_id[1], "load")) =>
          ResyncKeeps(load(Machine(users, db, outbox)).users)

\* Between batches: a member with a closed session is in a second one that began
\* earlier, and a user outside the channel has a record too.
C13_PopulatedLedger ==
    /\ phase = "Running"
    /\ batch = <<>>
    /\ \E u \in HumanMembers \cap DOMAIN users :
          /\ users[u].active
          /\ users[u].total > 0
          /\ users[u].first_seen[1] < now
    /\ \E v \in DOMAIN users : v \notin Members /\ users[v].total > 0

\* The event is a message with a text.
is_text_message(event) ==
    "type" \in DOMAIN event /\ event.type = "message" /\ "text" \in DOMAIN event

\* The command call the specification asks for: when the text begins with the
\* mention of the bot, token 0 of the tokens after the mention is the command
\* and the tokens after it are the arguments.
specified_call(text, id) ==
    IF startswith_mention(text, id)
    THEN LET tokens == split(SubSeq(text, 2, Len(text)))
         IN  IF tokens # <<>>
             THEN Some([command |-> tokens[1], args |-> Tail(tokens)])
             ELSE None
    ELSE None

\* C14, as stated: for every message text about to be handled, the bot calls a
\* command exactly when the text begins with its mention (and a token follows);
\* the command is token 0 of the tokens after the mention, the arguments are the
\* tokens after it, and handling the message has the effect of that command.
C14_CommandIsFirstTokenAfterMention ==
    (phase = "Running" /\ batch # <<>> /\ is_text_message(Head(batch))) =>
        LET event == Head(batch)
            call == specified_call(event.text, self_id[1])
            m == Machine(users, db, outbox)
        IN  /\ command_call(event.text, self_id[1]) = call
            /\ \A in \in AllInputs :
                  _handle_message(m, event, self_id[1], in.pres, now, in.fail) =
                      IF call = None
                      THEN m
                      ELSE _handle_command(m, event, call[1].command, call[1].args,
                                           in.pres, now, in.fail)

\* The command the bot takes from the event is none of those it knows.
RecognizedCommands == {"hello", "hi", "scores", "save", "load"}
is_unrecognized(event, id) ==
    /\ is_text_message(event)
    /\ command_call(event.text, id) # None
    /\ \A w \in RecognizedCommands : ~lower_is(command_call(event.text, id)[1].command, w)

\* The event is of a type the bot does not handle, or a message that does not
\* begin with the mention of the bot, or a message with an unrecognized command.
is_ignorable(event, id) ==
    \/ "type" \in DOMAIN event /\ event.type \notin {"message", "presence_change"}
    \/ is_text_message(event) /\ ~startswith_mention(event.text, id)
    \/ is_unrecognized(event, id)

\* C15: handling an event of another type, a message not addressed to the bot, or
\* an addressed message whose command the bot does not recognize sends nothing,
\* leaves ledger and disk as they are, and leaves the bot running with the rest
\* of the batch.
C15_IgnoredEventsChangeNothing ==
    [][(Handled /\ is_ignorable(Head(batch), self_id[1])) =>
          /\ users' = users
          /\ db' = db
          /\ outbox' = outbox
          /\ phase' = "Running"]_vars

\* An unaddressed save is about to be handled while a user is in a session that
\* is not on disk.
C15_IgnorableEventPending ==
    /\ phase = "Running"
    /\ batch # <<>>
    /\ Head(batch) = UnaddressedEvent
    /\ \E u \in DOMAIN users :
          /\ users[u].active
          /\ users[u].first_seen[1] < now
          /\ u \in DOMAIN db => db[u].total < LiveTotal(users[u], now)

\* The event lacks a field its handler reads.
is_malformed(event) ==
    \/ "type" \notin DOMAIN event
    \/ event.type = "message" /\ ("text" \notin DOMAIN event \/ "channel" \notin DOMAIN event)
    \/ event.type = "presence_change" /\ "user" \notin DOMAIN event

\* C16, as stated: handling a malformed event changes no state, sends nothing and
\* leaves the bot running.
C16_MalformedEventIsDropped ==
    [][(Handled /\ is_malformed(Head(batch))) =>
          /\ users' = users
          /\ db' = db
          /\ outbox' = outbox
          /\ phase' = "Running"]_vars

\* The record save() writes for a record of the ledger.
closed_record(user, t) ==
    [user EXCEPT !.active = FALSE, !.total = LiveTotal(user, t), !.first_seen = None]

\* C20: the disk changes only in a step that handles a save command, which
\* writes the whole ledger with every session closed and nothing else; no record
\* on disk is in a session; a restart gives exactly the ledger on disk, and a
\* load command gives the membership sync run on exactly the ledger on disk.
C20_DiskWrittenOnlyBySave ==
    [][/\ db' # db => HandledCommand("save")
       /\ HandledCommand("save") =>
             db' = [u \in DOMAIN users |-> closed_record(users[u], now)]
       /\ \A u \in DOMAIN db' : ~db'[u].active
       /\ Restarted => users' = db
       /\ HandledCommand("load") =>
             \E in \in InputsOf(Head(batch), self_id[1]) :
                 users' = _update_all_users(Machine(db, db, outbox), in.pres, now, in.fail).users]_vars

\* A new process has the ledger of the last save, which lacks time recorded later.
C20_RestartedFromSnapshot ==
    /\ phase = "Disconnected"
    /\ users = db
    /\ \E u \in DOMAIN db : db[u].total > 0 /\ recorded_active[u] > db[u].total

\* The steps connect() can take from one phase to another.
PhaseOrder ==
    {<<"Disconnected", "Connecting">>,
     <<"Connecting", "Syncing">>, <<"Connecting", "Stopped">>,
     <<"Syncing", "Running">>, <<"Syncing", "Stopped">>,
     <<"Running", "Stopped">>}

\* C17: within one process the phase moves only along Disconnected, Connecting,
\* Syncing, Running (or to Stopped); no event is read before Running, and events
\* are handled only in Running, where the identity and the channel are known and every non-bot
\* member has a record; the sync that ends in Running leaves every non-bot member
\* active exactly as its presence was answered; ledger and disk change only by
\* the sync or by handling an event; a batch is read only when the previous one
\* is used up, and each step handles the oldest event of the batch, whole.
C17_PhasesInOrder ==
    [][/\ phase' # phase => Restarted \/ <<phase, phase'>> \in PhaseOrder
       /\ batch' # batch =>
             \/ Restarted
             \/ phase = "Running" /\ batch = <<>>
             \/ Handled
       /\ (users' # users \/ db' # db) => Handled \/ Synced \/ Restarted
       /\ phase = "Running" =>
             /\ self_id = Some(SelfId)
             /\ rpg_channel_id = Some(RpgChannelId)
             /\ HumanMembers \subseteq DOMAIN users
       /\ phase \in {"Disconnected", "Connecting", "Syncing"} => batch = <<>>
       /\ (phase = "Syncing" /\ phase' = "Running") =>
             \E pres \in Presences :
                 /\ users' = _update_all_users(Machine(users, db, outbox), pres, now, NoFail).users
                 /\ \A u \in HumanMembers : u \in DOMAIN users' /\ users'[u].active = pres[u]
       /\ Handled =>
             \E m \in outcomes(Machine(users, db, outbox), Head(batch), self_id[1], now) :
                 /\ users' = m.users
                 /\ db' = m.db
                 /\ outbox' = m.outbox
                 /\ phase' = IF m.raised THEN "Stopped" ELSE "Running"]_vars

\* Of a batch of two, the hello has been answered and the save is still to come.
C17_SecondEventPending ==
    /\ phase = "Running"
    /\ batch = <<MessageEvent(Addressed("save"), "C1")>>
    /\ Len(outbox) = 1
    /\ outbox[1].text.head = "Hello from Python! :tada:"
    /\ db = <<>>
    /\ \E u \in DOMAIN users : users[u].active

\* C18, as stated: a rejected connection or a channel not found stops the bot
\* before Running with no event read; a stopped bot does nothing more (short of
\* a new process); and a running bot stops only while handling an event during
\* which a remote call fails: with every call answered ok it would go on.
C18_OnlyRemoteFailuresStop ==
    [][/\ (phase \in {"Connecting", "Syncing"} /\ phase' = "Stopped") => batch' = <<>>
       /\ phase = "Stopped" =>
             \/ Restarted
             \/ phase' = "Stopped" /\ UNCHANGED <<users, db, batch, outbox>>
       /\ (phase = "Running" /\ phase' = "Stopped") =>
             /\ Handled
             /\ \A pres \in Presences :
                   ~_handle_event(Machine(users, db, outbox), Head(batch), self_id[1],
                                  pres, now, NoFail).raised]_vars

\* C19, as stated: a step that closes a user's session never lowers the total,
\* and leaves it as it is when the clock shows less than first_seen; the total
\* a save writes for a user and the total scores reports for a user are never
\* below the user's total.
C19_ElapsedClampedAtZero ==
    [][/\ \A u \in DOMAIN users \cap DOMAIN users' :
             (users[u].active /\ ~users'[u].active /\ ~Restarted /\ ~HandledCommand("load")) =>
                 /\ users'[u].total >= users[u].total
                 /\ now < users[u].first_seen[1] => users'[u].total = users[u].total
       /\ HandledCommand("save") =>
             \A u \in DOMAIN users : db'[u].total >= users[u].total
       /\ HandledCommand("scores") =>
             LET lines == outbox'[Len(outbox')].text.lines
             IN  \A u \in DOMAIN users :
                     \E i \in 1..Len(lines) :
                         /\ lines[i].name = score_name(users[u].profile)
                         /\ lines[i].total >= users[u].total]_vars

====
